---- MODULE Spec2Model ----
(***************************************************************************)
(* Model of the stock-analyzer repository: the expiring blob cache         *)
(* (src/src/cloud_storage.py), the cache-backed loaders (src/src/utils.py, *)
(* src/src/main.py), the merge of the fetched tables and the dashboard     *)
(* session (src/src/app.py).                                               *)
(***************************************************************************)
EXTENDS Integers, Sequences, FiniteSets, TLC

VARIABLES
    store,    \* the bucket: blob name -> blob (Missing or pickled object)
    now,      \* the wall clock, in ticks (DayTicks ticks to the day)
    cpc,      \* a direct cache client's position inside save_to_cache
    hist,     \* the last two things that happened to the cache client
    written,  \* the keys a client ever called save_to_cache on
    inp,      \* the tables handed to the data path (constituents, daily, weekly)
    out,      \* the tables the data path has produced so far
    dpc,      \* the stage the data path has reached
    world,    \* the index membership the constituents document shows
    stack,    \* the pipeline's call stack, innermost frame last
    done,     \* the record of the call that returned or raised last
    session_state  \* st.session_state of one dashboard session, and its page

cacheVars == <<store, now>>
clientVars == <<cpc, hist, written>>
dataVars == <<inp, out, dpc>>
pipeVars == <<world, stack, done>>
appVars == <<session_state>>
vars == <<store, now, cpc, hist, written, inp, out, dpc, world, stack, done,
         session_state>>

----------------------------------------------------------------------------
(* Bounds of the model *)

\* ticks of the clock per day (resolution of the modelled clock)
DayTicks == 2
\* the clock stops advancing here
MaxTime == 4
\* largest max_age_days a client passes
MaxAgeDays == 1

\* default of max_age_days
DefaultMaxAgeDays == 1

Min(a, b) == IF a < b THEN a ELSE b

\* an operation completes in less than a day: the clock readings it can see
Latencies == 0 .. (DayTicks - 1)

----------------------------------------------------------------------------
(* Blobs and pickled objects *)

Missing == [kind |-> "missing"]
None == [kind |-> "None"]
Raise == [kind |-> "raise"]

\* pickle.dump writes the object's bytes, pickle.load reads the object back
pickle_dump(obj) == [kind |-> "pickle", obj |-> obj]
pickle_load(blob) == blob.obj

\* blob.exists()
exists(s, name) == s[name].kind # "missing"

\* _get_blob: the blob named by the path itself
_get_blob(file_path) == file_path

\* _get_metadata_blob: the sibling blob f"{file_path}_metadata"
_get_metadata_blob(file_path) == file_path \o "_metadata"

\* timedelta(days=max_age_days), in ticks
timedelta_days(max_age_days) == max_age_days * DayTicks

\* metadata["date"] succeeds on the dict save_to_cache pickles
HasDate(obj) == "date" \in DOMAIN obj

\* save_to_cache, first half: pickle the data into the data blob
save_data_blob(s, data, file_path) ==
    [s EXCEPT ![_get_blob(file_path)] = pickle_dump(data)]

\* a save that writes the timestamp over the data blob instead of its sibling
save_metadata_blob_wrong_name(s, t, file_path) ==
    [s EXCEPT ![_get_blob(file_path)] = pickle_dump([date |-> t])]

\* save_to_cache, second half: pickle {"date": datetime.now()} into the
\* metadata blob
save_metadata_blob(s, t, file_path) ==
    [s EXCEPT ![_get_metadata_blob(file_path)] = pickle_dump([date |-> t])]

\* save_to_cache run to completion with the clock reading t
save_to_cache(s, t, data, file_path) ==
    save_metadata_blob(save_data_blob(s, data, file_path), t, file_path)

\* a load that counts an entry exactly max_age old as expired (>= for >)
load_from_cache_ge(s, t, file_path, max_age_days) ==
    IF ~exists(s, _get_blob(file_path)) \/ ~exists(s, _get_metadata_blob(file_path))
    THEN None
    ELSE LET metadata == pickle_load(s[_get_metadata_blob(file_path)])
         IN  IF ~HasDate(metadata)
             THEN Raise
             ELSE IF t - metadata.date >= timedelta_days(max_age_days)
                  THEN None
                  ELSE pickle_load(s[_get_blob(file_path)])

\* a load that misses only when both blobs are gone (and for or): opening the
\* missing metadata blob then raises
load_from_cache_and(s, t, file_path, max_age_days) ==
    IF ~exists(s, _get_blob(file_path)) /\ ~exists(s, _get_metadata_blob(file_path))
    THEN None
    ELSE IF ~exists(s, _get_blob(file_path)) \/ ~exists(s, _get_metadata_blob(file_path))
    THEN Raise
    ELSE LET metadata == pickle_load(s[_get_metadata_blob(file_path)])
         IN  IF ~HasDate(metadata)
             THEN Raise
             ELSE IF t - metadata.date > timedelta_days(max_age_days)
                  THEN None
                  ELSE pickle_load(s[_get_blob(file_path)])

\* load_from_cache with the clock reading t
load_from_cache(s, t, file_path, max_age_days) ==
    IF ~exists(s, _get_blob(file_path)) \/ ~exists(s, _get_metadata_blob(file_path))
    THEN None
    ELSE LET metadata == pickle_load(s[_get_metadata_blob(file_path)])
         IN  IF ~HasDate(metadata)
             THEN Raise
             ELSE IF t - metadata.date > timedelta_days(max_age_days)
                  THEN None
                  ELSE pickle_load(s[_get_blob(file_path)])

\* a delete that forgets the metadata blob
delete_from_cache_data_only(s, file_path) ==
    IF exists(s, _get_blob(file_path))
    THEN [s EXCEPT ![_get_blob(file_path)] = Missing]
    ELSE s

\* delete_from_cache
delete_from_cache(s, file_path) ==
    LET s1 == IF exists(s, _get_blob(file_path))
              THEN [s EXCEPT ![_get_blob(file_path)] = Missing]
              ELSE s
    IN  IF exists(s1, _get_metadata_blob(file_path))
        THEN [s1 EXCEPT ![_get_metadata_blob(file_path)] = Missing]
        ELSE s1

----------------------------------------------------------------------------
(* Tables: a table is a sequence of rows, a row is a record.  Prices are   *)
(* in cents (two decimals), percentages in hundredths of a percent.        *)

\* the ticker symbols of the model, in the provider's column order
TickerOrder == <<"A", "B", "C">>
Tickers == {TickerOrder[i] : i \in 1 .. Len(TickerOrder)}
TickerRank(t) == CHOOSE i \in 1 .. Len(TickerOrder) : TickerOrder[i] = t

\* trading days in the daily window (start = today - 3 days, through now)
NDates == 2
WindowDates == 1 .. NDates

\* the '% Deviation' column
DEVIATION == "dev"

\* a missing string cell after a left join
NaN == "NaN"

RECURSIVE Flatten(_)
Flatten(seqs) == IF seqs = <<>> THEN <<>> ELSE Head(seqs) \o Flatten(Tail(seqs))

RECURSIVE SumSeq(_)
SumSeq(q) == IF q = <<>> THEN 0 ELSE Head(q) + SumSeq(Tail(q))

\* x.round(2) of the exact quotient a / b (b > 0), to the nearest unit, a tie
\* going to the even neighbour
RoundDiv(a, b) ==
    LET q == a \div b
        r == a % b
    IN  IF 2 * r < b THEN q
        ELSE IF 2 * r > b THEN q + 1
        ELSE IF q % 2 = 0 THEN q ELSE q + 1

\* every order of the rows at the indices I that is ascending in keys; rows
\* with equal keys may come out in any order (quicksort is not stable)
RECURSIVE Arrangements(_, _, _)
Arrangements(rows, I, keys) ==
    IF I = {} THEN {<<>>}
    ELSE UNION { { <<rows[i]>> \o rest : rest \in Arrangements(rows, I \ {i}, keys) } :
                 i \in { i \in I : \A j \in I : keys[i] <= keys[j] } }

\* a sort that hands the table back in the order it came in
sort_values_keep_order(rows, by) == {rows}

\* df.sort_values(by=column, ascending=True): the tables it can return
sort_values(rows, by) ==
    Arrangements(rows, DOMAIN rows, [i \in DOMAIN rows |-> rows[i][by]])

\* df.sort_values(by=column, ascending=False)
sort_values_descending(rows, by) ==
    Arrangements(rows, DOMAIN rows, [i \in DOMAIN rows |-> 0 - rows[i][by]])

\* the constituents document: one table row of four cells per member
Document(members_now) ==
    LET members == SelectSeq(TickerOrder, LAMBDA t : t \in members_now)
    IN  [i \in 1 .. Len(members) |->
            <<members[i], "Co" \o members[i], "Tech", "Software">>]

\* load_or_download_sp500_tickers, lines 55-65: rows with at least 4 cells
parse_constituents(document) ==
    LET kept == SelectSeq(document, LAMBDA cols : Len(cols) >= 4)
    IN  [i \in 1 .. Len(kept) |->
            [Ticker |-> kept[i][1], Security |-> kept[i][2],
             Sector |-> kept[i][3], Industry |-> kept[i][4]]]

\* sp500_df['Ticker'].tolist()
tolist(sp500_df) == [i \in 1 .. Len(sp500_df) |-> sp500_df[i].Ticker]
TickerSet(rows) == {rows[i].Ticker : i \in DOMAIN rows}

\* data['Close'].stack().reset_index(): one row per (date, ticker) cell that
\* holds a close, dates first, tickers in column order; NaN cells (a date
\* outside the ticker's domain) are dropped
stack_close(close) ==
    Flatten([d \in WindowDates |->
        LET cols == SelectSeq(TickerOrder,
                        LAMBDA t : t \in DOMAIN close /\ d \in DOMAIN close[t])
        IN  [i \in 1 .. Len(cols) |->
                [Date |-> d, Ticker |-> cols[i], Close |-> close[cols[i]][d]]]])

\* pd.merge(closing_prices, sp500_df, on='Ticker', how='left')
merge_left(closing_prices, sp500_df) ==
    Flatten([i \in DOMAIN closing_prices |->
        LET l == closing_prices[i]
            hits == SelectSeq(sp500_df, LAMBDA r : r.Ticker = l.Ticker)
        IN  IF hits = <<>>
            THEN << [Date |-> l.Date, Ticker |-> l.Ticker, Close |-> l.Close,
                     Security |-> NaN, Sector |-> NaN, Industry |-> NaN] >>
            ELSE [j \in DOMAIN hits |->
                    [Date |-> l.Date, Ticker |-> l.Ticker, Close |-> l.Close,
                     Security |-> hits[j].Security, Sector |-> hits[j].Sector,
                     Industry |-> hits[j].Industry]]])

\* result_df.sort_values(['Ticker', 'Date'])
TickerDateKey(r) == TickerRank(r.Ticker) * (NDates + 1) + r.Date

\* fetch_stock_data, lines 73-86, from the constituents and the downloaded data
fetch_stock_data_rows(sp500_df, data) ==
    LET joined == merge_left(stack_close(data.Close), sp500_df)
    IN  CHOOSE t \in Arrangements(joined, DOMAIN joined,
                        [i \in DOMAIN joined |-> TickerDateKey(joined[i])]) : TRUE

\* closing_prices.iloc[:, -2] taken before the mean column is appended: the
\* second to last week (the last one for a single week)
latest_close_before_append(weeks) ==
    IF Len(weeks) >= 2 THEN weeks[Len(weeks) - 1] ELSE weeks[Len(weeks)]

\* closing_prices.iloc[:, -2] once '200wk_sma' is appended as the last
\* column: the last weekly close
latest_close(weeks) == weeks[Len(weeks)]

\* closing_prices.mean(axis=1).round(2)
mean_round2(weeks) == RoundDiv(SumSeq(weeks), Len(weeks))

\* ((latest - sma) / sma * 100).round(2), in hundredths of a percent
percent_deviation(latest, sma) == RoundDiv((latest - sma) * 10000, sma)

\* fetch_200_wk_simple_moving_average_SMA, lines 122-126, for one grid row
sma_row(ticker, weeks) ==
    [Ticker |-> ticker, weeks |-> weeks, sma |-> mean_round2(weeks),
     dev |-> percent_deviation(latest_close(weeks), mean_round2(weeks))]

\* fetch_200_wk_simple_moving_average_SMA, lines 122-127: the tables it can
\* return for a weekly grid (ticker -> weekly closes)
sma_tables(grid) ==
    LET cols == SelectSeq(TickerOrder, LAMBDA t : t \in DOMAIN grid)
    IN  sort_values_descending([i \in 1 .. Len(cols) |-> sma_row(cols[i], grid[cols[i]])],
                               DEVIATION)

\* the merged row of a price row and a moving-average row
MergedRow(l, r) ==
    [dev |-> r.dev, Ticker |-> l.Ticker, Company |-> l.Security, sma |-> r.sma,
     Close |-> l.Close, Sector |-> l.Sector, Industry |-> l.Industry]

\* a left join in merge_stock_data: price rows without an average are kept
merge_on_ticker_left(closing_prices, moving_averages) ==
    Flatten([i \in DOMAIN closing_prices |->
        LET l == closing_prices[i]
            hits == SelectSeq(moving_averages, LAMBDA r : r.Ticker = l.Ticker)
        IN  IF hits = <<>>
            THEN << MergedRow(l, [dev |-> 0, sma |-> 0]) >>
            ELSE [j \in DOMAIN hits |-> MergedRow(l, hits[j])]])

\* merge_stock_data, lines 148-159: pd.merge on 'Ticker' (an inner join),
\* drop index and Date, rename, reorder
merge_on_ticker(closing_prices, moving_averages) ==
    Flatten([i \in DOMAIN closing_prices |->
        LET l == closing_prices[i]
            hits == SelectSeq(moving_averages, LAMBDA r : r.Ticker = l.Ticker)
        IN  [j \in DOMAIN hits |-> MergedRow(l, hits[j])]])


\* a DataFrame as a picklable object
DataFrame(rows) == [table |-> rows]

\* the cache files of the pipeline
SP500_CACHE == "sp500_cache.pkl"
DATA_CACHE == "data_cache.pkl"
WMA_CACHE == "200wma_cache.pkl"
FINAL_CACHE == "final_merged_data_cache.pkl"
PipeKeys == {SP500_CACHE, DATA_CACHE, WMA_CACHE, FINAL_CACHE}
PipeBlobs == PipeKeys \cup {_get_metadata_blob(k) : k \in PipeKeys}

\* merge_stock_data: the outcomes (bucket, table saved, table returned) for
\* the clock reading t
merge_stock_data(s, t, closing_prices, moving_averages) ==
    { [store |-> save_to_cache(s, t, DataFrame(m), FINAL_CACHE),
       merged |-> m, returned |-> r] :
        <<m, r>> \in UNION { {m} \X sort_values(m, DEVIATION) :
                m \in sort_values(merge_on_ticker(closing_prices, moving_averages),
                                  DEVIATION) } }

----------------------------------------------------------------------------
(* A client calling the cache directly, on any key *)

\* keys a client uses: a key and the key that names its metadata blob
ClientKeys == {"k", "k_metadata"}
ClientBlobs == ClientKeys \cup {_get_metadata_blob(k) : k \in ClientKeys}
ClientPayloads == {[table |-> "p1"], [table |-> "p2"]}
MaxAges == 0 .. MaxAgeDays

\* an event: the operation, its arguments, its result, which of the key's two
\* blobs existed before it, and whether it left the bucket as it was
NoEvent == [op |-> "none", key |-> "", obj |-> None, age |-> 0, res |-> None,
            pre |-> <<FALSE, FALSE>>, same |-> TRUE]
Event(op, key, obj, age, res, pre, same) ==
    [op |-> op, key |-> key, obj |-> obj, age |-> age, res |-> res,
     pre |-> pre, same |-> same]
Pre(key) == <<exists(store, _get_blob(key)), exists(store, _get_metadata_blob(key))>>
Push(e) == <<hist[2], e>>

NoTables == [none |-> TRUE]
NoCall == [fn |-> "none", at |-> "none", val |-> NoTables]

\* app.py, lines 16-29: the session state of a new browser session, on the
\* login page
NewSession ==
    [logged_in |-> FALSE, sp500_stocks |-> None, data_fetched |-> FALSE,
     merged_df |-> None, lower_bound |-> None, upper_bound |-> None,
     filtered_df |-> None, page |-> "login"]

Idle == [at |-> "idle", key |-> "", obj |-> None, pre |-> <<FALSE, FALSE>>]

InitCache ==
    /\ store = [b \in ClientBlobs |-> Missing]
    /\ now = 0
    /\ cpc = Idle
    /\ hist = <<NoEvent, NoEvent>>
    /\ written = {}
    /\ inp = NoTables /\ out = NoTables /\ dpc = "off"
    /\ world = {} /\ stack = <<>> /\ done = NoCall
    /\ session_state = NewSession

\* time passes while nothing runs
Tick ==
    /\ cpc.at = "idle"
    /\ now < MaxTime
    /\ now' = now + 1
    /\ hist' = Push(Event("tick", "", None, 0, None, <<FALSE, FALSE>>, TRUE))
    /\ UNCHANGED <<store, cpc, written>>
    /\ UNCHANGED <<dataVars, pipeVars, appVars>>

\* save_to_cache, lines 59-61
ClientSaveData(k, p) ==
    /\ cpc.at = "idle"
    /\ store' = save_data_blob(store, p, k)
    /\ cpc' = [at |-> "meta", key |-> k, obj |-> p, pre |-> Pre(k)]
    /\ written' = written \cup {k}
    /\ hist' = Push(Event("save_data", k, p, 0, None, Pre(k), FALSE))
    /\ UNCHANGED now
    /\ UNCHANGED <<dataVars, pipeVars, appVars>>

\* save_to_cache, lines 64-67
ClientSaveMeta ==
    /\ cpc.at = "meta"
    /\ \E d \in Latencies :
        /\ now' = Min(now + d, MaxTime)
        /\ store' = save_metadata_blob(store, now', cpc.key)
    /\ hist' = Push(Event("save", cpc.key, cpc.obj, 0, None, cpc.pre, FALSE))
    /\ cpc' = Idle
    /\ UNCHANGED written
    /\ UNCHANGED <<dataVars, pipeVars, appVars>>

\* the process dies between the two writes of save_to_cache
ClientCrash ==
    /\ cpc.at = "meta"
    /\ hist' = Push(Event("crash", cpc.key, cpc.obj, 0, None, cpc.pre, FALSE))
    /\ cpc' = Idle
    /\ UNCHANGED <<store, now, written>>
    /\ UNCHANGED <<dataVars, pipeVars, appVars>>

\* load_from_cache
ClientLoad(k, a) ==
    /\ cpc.at = "idle"
    /\ \E d \in Latencies :
        /\ now' = Min(now + d, MaxTime)
        /\ hist' = Push(Event("load", k, None, a,
                              load_from_cache(store, now', k, a), Pre(k), TRUE))
    /\ UNCHANGED <<store, cpc, written>>
    /\ UNCHANGED <<dataVars, pipeVars, appVars>>

\* delete_from_cache
ClientDelete(k) ==
    /\ cpc.at = "idle"
    /\ store' = delete_from_cache(store, k)
    /\ hist' = Push(Event("delete", k, None, 0, None, Pre(k), store' = store))
    /\ UNCHANGED <<now, cpc, written>>
    /\ UNCHANGED <<dataVars, pipeVars, appVars>>

NextCache ==
    \/ Tick
    \/ \E k \in ClientKeys, p \in ClientPayloads : ClientSaveData(k, p)
    \/ ClientSaveMeta
    \/ ClientCrash
    \/ \E k \in ClientKeys, a \in MaxAges : ClientLoad(k, a)
    \/ \E k \in ClientKeys : ClientDelete(k)

SpecCache == InitCache /\ [][NextCache]_vars

----------------------------------------------------------------------------
(* Claims about the cache, checked under SpecCache *)

Last == hist[2]
Prev == hist[1]
DataOf(k) == store[_get_blob(k)]
MetaOf(k) == store[_get_metadata_blob(k)]
\* the metadata blob of k holds a timestamp
Stamped(k) == MetaOf(k) # Missing /\ HasDate(MetaOf(k).obj)
\* now - written_at of k, at the clock reading of the last operation
AgeOf(k) == now - MetaOf(k).obj.date

\* C1: load_from_cache returns None when the data blob is missing, or the
\* metadata blob is missing, or now - written_at > max_age; when both blobs
\* exist and now - written_at <= max_age (equality included) it returns the
\* stored payload.
C1_LoadContract ==
    Last.op = "load" =>
        /\ (DataOf(Last.key) = Missing \/ MetaOf(Last.key) = Missing)
              => Last.res = None
        /\ (DataOf(Last.key) # Missing /\ Stamped(Last.key)
              /\ AgeOf(Last.key) > Last.age * DayTicks)
              => Last.res = None
        /\ (DataOf(Last.key) # Missing /\ Stamped(Last.key)
              /\ AgeOf(Last.key) <= Last.age * DayTicks)
              => Last.res = DataOf(Last.key).obj

\* a load of an entry whose age equals max_age exactly, which returns it
C1_Witness ==
    /\ Last.op = "load"
    /\ DataOf(Last.key) # Missing /\ Stamped(Last.key)
    /\ Last.age = 1
    /\ AgeOf(Last.key) = Last.age * DayTicks
    /\ Last.res = DataOf(Last.key).obj

\* a put on K directly followed by a get on K
PutThenGet == Prev.op = "save" /\ Last.op = "load" /\ Last.key = Prev.key

\* C2 as claimed: save_to_cache(P, K) followed immediately by
\* load_from_cache(K, max_age) returns P for every max_age >= 0.
C2_PutGetAnyAge == PutThenGet => Last.res = Prev.obj

\* C2 amended: the get returns P for every max_age >= 1 day; with
\* max_age = 0 it returns P only when the clock has not moved since the put
\* took its timestamp, and None otherwise.
C2_PutGet ==
    PutThenGet =>
        /\ Last.age >= 1 => Last.res = Prev.obj
        /\ Last.age = 0 =>
              /\ Stamped(Last.key)
              /\ AgeOf(Last.key) = 0 => Last.res = Prev.obj
              /\ AgeOf(Last.key) > 0 => Last.res = None

\* a put over a complete entry, then a get with max_age 1 that returns P
C2_Witness ==
    /\ PutThenGet
    /\ Prev.pre = <<TRUE, TRUE>>
    /\ Last.age = 1
    /\ AgeOf(Last.key) > 0
    /\ Last.res = Prev.obj

\* a put that died between its two writes, then a get on the same key
CrashThenGet == Prev.op = "crash" /\ Last.op = "load" /\ Last.key = Prev.key

\* C4 as claimed: after a save_to_cache on K that crashed between the data
\* blob and the metadata blob, the next load_from_cache(K, max_age) returns
\* None, whatever was stored under K before.
C4_CrashIsMiss == CrashThenGet => Last.res = None

\* C4 amended: the next load returns None when K has no metadata blob or its
\* timestamp is older than max_age; when an earlier put's timestamp is still
\* within max_age the load returns the newly written payload.
C4_CrashThenLoad ==
    CrashThenGet =>
        /\ MetaOf(Last.key) = Missing => Last.res = None
        /\ (Stamped(Last.key) /\ AgeOf(Last.key) > Last.age * DayTicks)
              => Last.res = None
        /\ (Stamped(Last.key) /\ AgeOf(Last.key) <= Last.age * DayTicks)
              => Last.res = Prev.obj

\* a first put on K that died half way, then a get that misses
C4_Witness ==
    /\ CrashThenGet
    /\ Prev.pre = <<FALSE, FALSE>>
    /\ DataOf(Last.key) = pickle_dump(Prev.obj)
    /\ MetaOf(Last.key) = Missing
    /\ Last.res = None

WritesOrDeletes ==
    /\ hist' # hist
    /\ hist'[2].op \in {"save_data", "save", "delete"}

\* C13: save_to_cache and delete_from_cache on a key K change only the entry
\* of K: for every other key K' (K' = K + "_metadata" included) and every
\* max_age, load_from_cache(K', max_age) gives the same result before and
\* after the operation (both taken at the clock reading the operation ends
\* at).
C13_OtherKeysUntouched ==
    [][WritesOrDeletes =>
          \A k2 \in ClientKeys \ {hist'[2].key}, a \in MaxAges :
              load_from_cache(store', now', k2, a)
                  = load_from_cache(store, now', k2, a)]_vars

----------------------------------------------------------------------------
(* The data path on its own: the tables are drawn up front and the three   *)
(* computations are applied to them in the order main() calls them.        *)

\* bounds of the weekly grids
MaxWeeks == 3
MaxClose == 3
WeeklyCloses == {1000 * i : i \in 1 .. MaxClose}

Worlds == (SUBSET Tickers) \ {{}}

\* the daily close of a ticker on a date of the window
DailyClose(t, d) == 10000 * TickerRank(t) + 100 * d

\* yf.download(tickers, start=...): closes for the requested tickers; a
\* ticker may lack any of the dates
DailyDownloads(tickers) ==
    { [Close |-> [t \in tickers |-> [d \in dd[t] |-> DailyClose(t, d)]]] :
        dd \in [tickers -> SUBSET WindowDates] }

\* the weekly closes of each ticker as the market has them
MarketWeeks ==
    [t \in Tickers |->
        IF TickerRank(t) = 1 THEN <<1000, 2000, 3000>>
        ELSE IF TickerRank(t) = 2 THEN <<3000, 2000, 1000>>
        ELSE <<2000, 2000, 2000>>]

\* weekly closes of one ticker over n weeks
WeeklyRows == UNION { [1 .. n -> WeeklyCloses] : n \in 1 .. MaxWeeks }
Reverse(q) == [i \in 1 .. Len(q) |-> q[Len(q) + 1 - i]]

\* yf.download(tickers, interval='1wk'): a rectangular grid, for one ticker
\* and for two (the second with the first one's weeks in reverse)
WeeklyDownloads ==
    { [A |-> r] : r \in WeeklyRows } \cup { [A |-> r, B |-> Reverse(r)] : r \in WeeklyRows }

\* inputs that vary the price side and the membership on either side
MergeInputs ==
    { [sp500_df |-> parse_constituents(Document(w)), data |-> dl,
       weekly |-> [t \in t2 |-> MarketWeeks[t]]] :
        w \in {Tickers, {"A"}}, t2 \in Worlds,
        dl \in UNION { DailyDownloads(t1) :
                        t1 \in {t \in Worlds : Cardinality(t) <= 2} } }

\* inputs that vary the weekly grid
SMAInputs ==
    { [sp500_df |-> parse_constituents(Document(DOMAIN g)),
       data |-> [Close |-> [t \in {"A"} |-> [d \in {1} |-> DailyClose(t, d)]]],
       weekly |-> g] : g \in WeeklyDownloads }

NoRows == <<>>

InitData ==
    /\ inp \in MergeInputs \cup SMAInputs
    /\ out = [closing_prices |-> NoRows, moving_averages |-> NoRows,
              merged |-> NoRows, returned |-> NoRows]
    /\ dpc = "start"
    /\ store = [b \in PipeBlobs |-> Missing]
    /\ now = 0
    /\ cpc = Idle /\ hist = <<NoEvent, NoEvent>> /\ written = {}
    /\ world = {} /\ stack = <<>> /\ done = NoCall
    /\ session_state = NewSession

\* fetch_stock_data, lines 73-86
ApplyFetchStockData ==
    /\ dpc = "start"
    /\ out' = [out EXCEPT !.closing_prices =
                              fetch_stock_data_rows(inp.sp500_df, inp.data)]
    /\ dpc' = "prices"
    /\ UNCHANGED <<store, now, inp, clientVars, pipeVars, appVars>>

\* fetch_200_wk_simple_moving_average_SMA, lines 122-127
ApplySMA ==
    /\ dpc = "prices"
    /\ \E t \in sma_tables(inp.weekly) :
        out' = [out EXCEPT !.moving_averages = t]
    /\ dpc' = "sma"
    /\ UNCHANGED <<store, now, inp, clientVars, pipeVars, appVars>>

\* merge_stock_data
ApplyMerge ==
    /\ dpc = "sma"
    /\ \E d \in Latencies :
        /\ now' = Min(now + d, MaxTime)
        /\ \E o \in merge_stock_data(store, now', out.closing_prices,
                                     out.moving_averages) :
            /\ store' = o.store
            /\ out' = [out EXCEPT !.merged = o.merged, !.returned = o.returned]
    /\ dpc' = "merged"
    /\ UNCHANGED <<inp, clientVars, pipeVars, appVars>>

NextData ==
    \/ ApplyFetchStockData
    \/ ApplySMA
    \/ ApplyMerge

SpecData == InitData /\ [][NextData]_vars

----------------------------------------------------------------------------
(* Claims about the data path, checked under SpecData *)

Abs(x) == IF x < 0 THEN 0 - x ELSE x
\* x is the exact quotient a / b (b > 0) rounded to the nearest unit
Nearest(x, a, b) == 2 * Abs(x * b - a) <= b
RowsOf(rows, t) == {i \in DOMAIN rows : rows[i].Ticker = t}
\* the close of the most recent date the price table holds for t
LatestCloseOf(prices, t) ==
    LET i == CHOOSE i \in RowsOf(prices, t) :
                 \A j \in RowsOf(prices, t) : prices[j].Date <= prices[i].Date
    IN  prices[i].Close

\* C8: merge_stock_data joins only the latest close per symbol: the merged
\* output holds exactly one row for each of its symbols, and that row's
\* close_price is the close of the most recent date in the price table.
C8_LatestClosePerSymbol ==
    dpc = "merged" =>
        \A t \in TickerSet(out.returned) :
            /\ Cardinality(RowsOf(out.returned, t)) = 1
            /\ \A i \in RowsOf(out.returned, t) :
                 out.returned[i].Close = LatestCloseOf(out.closing_prices, t)

\* C9: the symbols of the output of merge_stock_data are exactly the symbols
\* the price table and the moving-average table have in common.
C9_InnerJoin ==
    dpc = "merged" =>
        /\ TickerSet(out.returned)
             = TickerSet(out.closing_prices) \cap TickerSet(out.moving_averages)
        /\ TickerSet(out.merged) = TickerSet(out.returned)

\* a merge where each input has a symbol the other lacks and one is shared
C9_Witness ==
    /\ dpc = "merged"
    /\ TickerSet(out.closing_prices) \ TickerSet(out.moving_averages) # {}
    /\ TickerSet(out.moving_averages) \ TickerSet(out.closing_prices) # {}
    /\ TickerSet(out.returned) # {}

SMADone == dpc \in {"sma", "merged"}

\* C10 as claimed: moving_average_200wk is the mean of the n weekly closes
\* and percent_deviation is (v - mean) / mean * 100 with v the grid value at
\* column index -2 of the weekly grid (the second to last week); the row
\* [10, 20, 30] gives 20.0 and 0.0.
C10_SecondToLastWeek ==
    SMADone =>
        \A i \in DOMAIN out.moving_averages :
            LET r == out.moving_averages[i]
                n == Len(r.weeks)
            IN  n >= 2 =>
                  /\ Nearest(r.sma, SumSeq(r.weeks), n)
                  /\ Nearest(r.dev, (r.weeks[n - 1] - r.sma) * 10000, r.sma)
                  /\ r.weeks = <<1000, 2000, 3000>> => (r.sma = 2000 /\ r.dev = 0)

\* C10 amended: moving_average_200wk is the mean of the n weekly closes
\* rounded to 2 decimals and percent_deviation is (v - mean) / mean * 100
\* rounded to 2 decimals with v the last weekly close w_n (column index -2
\* once the mean column is appended); [10, 20, 30] gives 20.0, v = 30, 50.0.
C10_LastWeek ==
    SMADone =>
        \A i \in DOMAIN out.moving_averages :
            LET r == out.moving_averages[i]
                n == Len(r.weeks)
            IN  /\ r.weeks = inp.weekly[r.Ticker]
                /\ Nearest(r.sma, SumSeq(r.weeks), n)
                /\ Nearest(r.dev, (r.weeks[n] - r.sma) * 10000, r.sma)
                /\ r.weeks = <<1000, 2000, 3000>> => (r.sma = 2000 /\ r.dev = 5000)

\* the row [10, 20, 30] with its average 20.0 and deviation 50.0
C10_Witness ==
    /\ SMADone
    /\ \E i \in DOMAIN out.moving_averages :
         /\ out.moving_averages[i].weeks = <<1000, 2000, 3000>>
         /\ out.moving_averages[i].sma = 2000
         /\ out.moving_averages[i].dev = 5000

\* rows in ascending order of a column
Ascending(rows, by) ==
    \A i, j \in DOMAIN rows : i < j => rows[i][by] <= rows[j][by]
\* how often each row occurs in a table
RowCounts(rows) ==
    [r \in {rows[i] : i \in DOMAIN rows} |->
        Cardinality({i \in DOMAIN rows : rows[i] = r})]
\* no two rows of the table share a value of the column
DistinctKeys(rows, by) ==
    \A i, j \in DOMAIN rows : i # j => rows[i][by] # rows[j][by]
\* the table the merged-result cache entry holds
Persisted == pickle_load(DataOf(FINAL_CACHE)).table

\* C11 as stated: the table merge_stock_data returns is sorted ascending by
\* percent_deviation, sorting it again gives the same table, and the table
\* persisted under the merged-result key equals the table returned, row for
\* row.
C11_ResortIdentical ==
    dpc = "merged" =>
        /\ Ascending(out.returned, DEVIATION)
        /\ sort_values(out.returned, DEVIATION) = {out.returned}
        /\ Persisted = out.returned

\* C11 amended: the returned table is sorted ascending by percent_deviation;
\* every re-sort of it is sorted and has the same rows; the persisted table
\* is sorted and has the same rows as the returned one; and when no two rows
\* share a percent_deviation the re-sort is the table itself and the
\* persisted table equals the returned one row for row.
C11_SortedSameRows ==
    dpc = "merged" =>
        /\ Ascending(out.returned, DEVIATION)
        /\ \A r \in sort_values(out.returned, DEVIATION) :
             /\ Ascending(r, DEVIATION)
             /\ RowCounts(r) = RowCounts(out.returned)
        /\ Persisted = out.merged
        /\ Ascending(Persisted, DEVIATION)
        /\ RowCounts(Persisted) = RowCounts(out.returned)
        /\ RowCounts(out.returned)
             = RowCounts(merge_on_ticker(out.closing_prices, out.moving_averages))
        /\ DistinctKeys(out.returned, DEVIATION) =>
             /\ sort_values(out.returned, DEVIATION) = {out.returned}
             /\ Persisted = out.returned

\* a merge of two symbols, one of them with two rows of equal deviation,
\* whose join came out unsorted and whose persisted order differs from the
\* returned one
C11_Witness ==
    /\ dpc = "merged"
    /\ Cardinality(TickerSet(out.returned)) = 2
    /\ ~DistinctKeys(out.returned, DEVIATION)
    /\ ~Ascending(merge_on_ticker(out.closing_prices, out.moving_averages), DEVIATION)
    /\ Persisted # out.returned

----------------------------------------------------------------------------
(* The pipeline: main() run again and again against the bucket, the clock  *)
(* and the outside sources.  A frame is one call in progress.              *)

\* the index memberships the constituents document can show
PipeWorlds == {{"A", "B"}, {"A"}}

\* the cache file of each cache-backed loader
Loaders == {"load_or_download_sp500_tickers", "load_or_download_data",
            "fetch_200_wk_simple_moving_average_SMA"}
CacheFile(fn) ==
    IF fn = "load_or_download_sp500_tickers" THEN SP500_CACHE
    ELSE IF fn = "load_or_download_data" THEN DATA_CACHE
    ELSE IF fn = "fetch_200_wk_simple_moving_average_SMA" THEN WMA_CACHE
    ELSE FINAL_CACHE

\* a call: its function, its position, its locals, and what it has done to
\* the outside so far (source contacted, fetches made, blobs written, the
\* bucket as it was at the call)
Frame(fn, at, sp500_df) ==
    [fn |-> fn, at |-> at, key |-> CacheFile(fn), got |-> None,
     contacted |-> FALSE, attempts |-> 0, wrote |-> {}, snap |-> store,
     val |-> NoTables, sp500_df |-> sp500_df, data |-> NoTables,
     closing_prices |-> NoRows, moving_averages |-> NoRows]

\* how a call ended: returned ("ret"), raised or crashed
Outcome(f, v) == [fn |-> f.fn, at |-> f.at, val |-> v]

Top == stack[Len(stack)]
Caller == stack[Len(stack) - 1]
SetTop(f) == [stack EXCEPT ![Len(stack)] = f]
PushFrame(f) == Append(stack, f)
\* the stack once the top frame is gone and its caller has become c
PopTo(c) == [SubSeq(stack, 1, Len(stack) - 1) EXCEPT ![Len(stack) - 1] = c]
Running == stack # <<>>
InLoader == Running /\ Top.fn \in Loaders

\* yf.download(tickers, start=previous_business_day): every requested ticker
\* with a close on the one trading day the window holds
PipeDaily(tickers) ==
    [Close |-> [t \in tickers |-> [d \in {NDates} |-> DailyClose(t, d)]]]

\* yf.download(tickers, interval='1wk')['Close'].T
PipeWeekly(tickers) == [t \in tickers |-> MarketWeeks[t]]

\* what a loader's fetch can produce
Fetched(f) ==
    IF f.fn = "load_or_download_sp500_tickers"
    THEN {DataFrame(parse_constituents(Document(world)))}
    ELSE IF f.fn = "load_or_download_data"
    THEN {PipeDaily(TickerSet(f.sp500_df))}
    ELSE {DataFrame(t) : t \in sma_tables(PipeWeekly(TickerSet(f.sp500_df)))}

Init ==
    /\ store = [b \in PipeBlobs |-> Missing]
    /\ now = 0
    /\ world \in PipeWorlds
    /\ stack = <<>>
    /\ done = NoCall
    /\ cpc = Idle /\ hist = <<NoEvent, NoEvent>> /\ written = {}
    /\ inp = NoTables /\ out = NoTables /\ dpc = "off"
    /\ session_state = NewSession

keep == <<clientVars, dataVars, appVars>>

\* time passes between runs
PipeTick ==
    /\ ~Running
    /\ now < MaxTime
    /\ now' = now + 1
    /\ UNCHANGED <<store, world, stack, done, keep>>

\* the index changes its members between runs
ChangeIndex ==
    /\ ~Running
    /\ \E w \in PipeWorlds \ {world} : world' = w
    /\ UNCHANGED <<store, now, stack, done, keep>>

\* main() is run
Start ==
    /\ ~Running
    /\ stack' = <<Frame("main", "fetch_stock_data", NoRows)>>
    /\ UNCHANGED <<store, now, world, done, keep>>

\* main: closing_prices = fetch_stock_data()
CallFetchStockData ==
    /\ Running /\ Top.fn = "main" /\ Top.at = "fetch_stock_data"
    /\ stack' = PushFrame(Frame("fetch_stock_data", "tickers", NoRows))
    /\ UNCHANGED <<store, now, world, done, keep>>

\* fetch_stock_data, line 65, and fetch_200_wk_simple_moving_average_SMA,
\* line 110: sp500_df = load_or_download_sp500_tickers()
CallTickers ==
    /\ Running /\ Top.at = "tickers"
    /\ stack' = PushFrame(Frame("load_or_download_sp500_tickers", "load", NoRows))
    /\ UNCHANGED <<store, now, world, done, keep>>

\* fetch_stock_data, line 71: data = load_or_download_data(sp500_df, ...)
CallData ==
    /\ Running /\ Top.fn = "fetch_stock_data" /\ Top.at = "data"
    /\ stack' = PushFrame(Frame("load_or_download_data", "load", Top.sp500_df))
    /\ UNCHANGED <<store, now, world, done, keep>>

\* main: moving_averages = fetch_200_wk_simple_moving_average_SMA()
CallSMA ==
    /\ Running /\ Top.fn = "main" /\ Top.at = "sma"
    /\ stack' = PushFrame(Frame("fetch_200_wk_simple_moving_average_SMA", "load", NoRows))
    /\ UNCHANGED <<store, now, world, done, keep>>

\* a loader's cached_data = cloud_storage.load_from_cache(cache_file) and the
\* test of it: a hit goes to the return, a miss goes on to the download
LoaderLoad ==
    /\ InLoader /\ Top.at = "load"
    /\ \E d \in Latencies :
        /\ now' = Min(now + d, MaxTime)
        /\ LET got == load_from_cache(store, now', Top.key, DefaultMaxAgeDays)
           IN  stack' = SetTop(
                 IF got # None
                 THEN [Top EXCEPT !.got = got, !.val = got, !.at = "ret"]
                 ELSE [Top EXCEPT !.got = got, !.at =
                         IF Top.fn = "fetch_200_wk_simple_moving_average_SMA"
                         THEN "tickers" ELSE "fetch"])
    /\ UNCHANGED <<store, world, done, keep>>

\* a loader that returns what it fetched without saving it
FetchOk_no_write_through ==
    /\ InLoader /\ Top.at = "fetch"
    /\ \E v \in Fetched(Top) :
        stack' = SetTop([Top EXCEPT !.contacted = TRUE, !.attempts = @ + 1,
                                    !.val = v, !.at = "ret"])
    /\ UNCHANGED <<store, now, world, done, keep>>

\* the download (and parse, and computation) of a loader succeeds
FetchOk ==
    /\ InLoader /\ Top.at = "fetch"
    /\ \E v \in Fetched(Top) :
        stack' = SetTop([Top EXCEPT !.contacted = TRUE, !.attempts = @ + 1,
                                    !.val = v, !.at = "save_data"])
    /\ UNCHANGED <<store, now, world, done, keep>>

\* a failed download that drops the stale entry before it raises
FetchFail_invalidate ==
    /\ InLoader /\ Top.at = "fetch"
    /\ store' = delete_from_cache(store, Top.key)
    /\ stack' = SetTop([Top EXCEPT !.contacted = TRUE, !.attempts = @ + 1,
                                   !.at = "raised"])
    /\ UNCHANGED <<now, world, done, keep>>

\* the download or the parse raises
FetchFail ==
    /\ InLoader /\ Top.at = "fetch"
    /\ stack' = SetTop([Top EXCEPT !.contacted = TRUE, !.attempts = @ + 1,
                                   !.at = "raised"])
    /\ UNCHANGED <<store, now, world, done, keep>>

\* an exception leaves a frame: no function of the pipeline catches it
Unwind ==
    /\ Running /\ Top.at = "raised"
    /\ done' = Outcome(Top, NoTables)
    /\ stack' = IF Len(stack) = 1 THEN <<>>
                ELSE PopTo([Caller EXCEPT !.at = "raised",
                                          !.contacted = @ \/ Top.contacted,
                                          !.wrote = @ \cup Top.wrote])
    /\ UNCHANGED <<store, now, world, keep>>

\* save_to_cache, lines 59-61, called by a loader or by merge_stock_data
SaveData ==
    /\ Running /\ Top.at = "save_data"
    /\ store' = save_data_blob(store, Top.val, Top.key)
    /\ stack' = SetTop([Top EXCEPT !.wrote = @ \cup {_get_blob(Top.key)},
                                   !.at = "save_meta"])
    /\ UNCHANGED <<now, world, done, keep>>

\* save_to_cache, lines 64-67
SaveMeta ==
    /\ Running /\ Top.at = "save_meta"
    /\ \E d \in Latencies :
        /\ now' = Min(now + d, MaxTime)
        /\ store' = save_metadata_blob(store, now', Top.key)
    /\ stack' = SetTop([Top EXCEPT !.wrote = @ \cup {_get_metadata_blob(Top.key)},
                                   !.at = "ret"])
    /\ UNCHANGED <<world, done, keep>>

\* the process dies between the two writes of save_to_cache
Crash ==
    /\ Running /\ Top.at = "save_meta"
    /\ done' = Outcome([Top EXCEPT !.at = "crashed"], NoTables)
    /\ stack' = <<>>
    /\ UNCHANGED <<store, now, world, keep>>

\* a loader returns its table to the call that waits for it
LoaderReturn ==
    /\ InLoader /\ Top.at = "ret"
    /\ done' = Outcome(Top, Top.val)
    /\ LET c == [Caller EXCEPT !.contacted = @ \/ Top.contacted,
                               !.attempts = @ + Top.attempts,
                               !.wrote = @ \cup Top.wrote]
       IN  stack' = PopTo(
             IF Top.fn = "load_or_download_sp500_tickers"
             THEN [c EXCEPT !.sp500_df = Top.val.table,
                            !.at = IF c.fn = "fetch_stock_data" THEN "data" ELSE "fetch"]
             ELSE IF Top.fn = "load_or_download_data"
             THEN [c EXCEPT !.data = Top.val, !.at = "join"]
             ELSE [c EXCEPT !.moving_averages = Top.val.table, !.at = "merge"])
    /\ UNCHANGED <<store, now, world, keep>>

\* fetch_stock_data, lines 73-86
Join ==
    /\ Running /\ Top.fn = "fetch_stock_data" /\ Top.at = "join"
    /\ stack' = SetTop([Top EXCEPT !.val = fetch_stock_data_rows(Top.sp500_df, Top.data),
                                   !.at = "ret"])
    /\ UNCHANGED <<store, now, world, done, keep>>

\* fetch_stock_data returns the price table to main
FetchStockDataReturn ==
    /\ Running /\ Top.fn = "fetch_stock_data" /\ Top.at = "ret"
    /\ done' = Outcome(Top, DataFrame(Top.val))
    /\ stack' = PopTo([Caller EXCEPT !.closing_prices = Top.val, !.at = "sma"])
    /\ UNCHANGED <<store, now, world, keep>>

\* main: merged_df = merge_stock_data(closing_prices, moving_averages),
\* lines 144-163: join, reshape and sort
CallMerge ==
    /\ Running /\ Top.fn = "main" /\ Top.at = "merge"
    /\ \E m \in sort_values(merge_on_ticker(Top.closing_prices, Top.moving_averages),
                            DEVIATION) :
        stack' = PushFrame([Frame("merge_stock_data", "save_data", NoRows)
                              EXCEPT !.val = DataFrame(m),
                                     !.closing_prices = Top.closing_prices,
                                     !.moving_averages = Top.moving_averages])
    /\ UNCHANGED <<store, now, world, done, keep>>

\* merge_stock_data, line 169: return merged_df.sort_values('% Deviation');
\* main prints it and ends
MergeReturn ==
    /\ Running /\ Top.fn = "merge_stock_data" /\ Top.at = "ret"
    /\ \E r \in sort_values(Top.val.table, DEVIATION) :
        done' = Outcome(Top, DataFrame(r))
    /\ stack' = <<>>
    /\ UNCHANGED <<store, now, world, keep>>

Next ==
    \/ PipeTick
    \/ ChangeIndex
    \/ Start
    \/ CallFetchStockData
    \/ CallTickers
    \/ CallData
    \/ CallSMA
    \/ LoaderLoad
    \/ FetchOk
    \/ FetchFail
    \/ Unwind
    \/ SaveData
    \/ SaveMeta
    \/ Crash
    \/ LoaderReturn
    \/ Join
    \/ FetchStockDataReturn
    \/ CallMerge
    \/ MergeReturn

Spec == Init /\ [][Next]_vars

----------------------------------------------------------------------------
(* Claims about the loaders, checked under Spec *)

AtReturn(fn) == Running /\ Top.fn = fn /\ Top.at = "ret"
BothBlobs(key) == {_get_blob(key), _get_metadata_blob(key)}

\* C3: each cache-backed loader whose cache get returned a payload returns it
\* without contacting the source and without writing to the cache; when the
\* get returned None it contacts the source and, the fetch having succeeded,
\* has written both blobs of its entry by the time it returns.
C3_WriteThrough ==
    \A fn \in Loaders :
        AtReturn(fn) =>
            /\ Top.got # None =>
                 /\ ~Top.contacted /\ Top.attempts = 0
                 /\ Top.wrote = {}
                 /\ store = Top.snap
                 /\ Top.val = Top.got
            /\ Top.got = None =>
                 /\ Top.contacted
                 /\ BothBlobs(Top.key) \subseteq Top.wrote
                 /\ DataOf(Top.key) = pickle_dump(Top.val)
                 /\ Stamped(Top.key)

\* the moving-average loader about to return after a miss, its entry written
C3_Witness ==
    /\ AtReturn("fetch_200_wk_simple_moving_average_SMA")
    /\ Top.got = None
    /\ DataOf(WMA_CACHE) = pickle_dump(Top.val)
    /\ Top.snap[WMA_CACHE] # Missing

Raising(fn) == Running /\ Top.fn = fn /\ Top.at = "raised"

\* C6: when the fetch or parse of the reference data fails on a cache miss,
\* load_or_download_sp500_tickers has fetched once, has written no blob (the
\* bucket is as it was at the call), and the error goes on into its caller.
C6_FetchFailure ==
    /\ Raising("load_or_download_sp500_tickers") =>
         /\ Top.got = None
         /\ Top.attempts = 1
         /\ Top.wrote = {}
         /\ store = Top.snap
    /\ (done.fn = "load_or_download_sp500_tickers" /\ done.at = "raised") =>
         /\ Running /\ Top.at = "raised"
         /\ Top.fn \in {"fetch_stock_data", "fetch_200_wk_simple_moving_average_SMA"}

\* the error of a failed refresh of a stale entry has reached the caller
C6_Witness ==
    /\ done.fn = "load_or_download_sp500_tickers" /\ done.at = "raised"
    /\ Running /\ Top.at = "raised"
    /\ DataOf(SP500_CACHE) # Missing /\ Stamped(SP500_CACHE)

\* C7: every symbol in the price rows fetch_stock_data returns also exists
\* in the ConstituentTable used for the join in that run.
C7_PriceSymbolsInConstituents ==
    AtReturn("fetch_stock_data") =>
        TickerSet(Top.val) \subseteq TickerSet(Top.sp500_df)

----------------------------------------------------------------------------
(* The dashboard: app.py.  Streamlit runs the script from the top on every *)
(* interaction; an action is one interaction with the reruns it causes.    *)

\* the index memberships the dashboard's fetches can meet
AppWorlds == {{"A", "B"}, {"A", "B", "C"}, {"A", "C"}}

\* lines 83-91: fetch_stock_data(), fetch_200_wk_simple_moving_average_SMA()
\* and merge_stock_data() in a row; the merged tables they can return
AppTables ==
    UNION { UNION { sort_values(
                      merge_on_ticker(
                        fetch_stock_data_rows(parse_constituents(Document(w)),
                                              PipeDaily(w)),
                        t),
                      DEVIATION) : t \in sma_tables(PipeWeekly(w)) } :
            w \in AppWorlds }

\* what the fetch block's three calls end in: a merged table or an exception
FetchOutcomes == {Raise} \cup {DataFrame(m) : m \in AppTables}
\* what load_or_download_sp500_tickers() at line 60 ends in
StocksOutcomes ==
    {Raise} \cup {DataFrame(parse_constituents(Document(w))) : w \in AppWorlds}

\* float(x)
Float(x) == [value |-> x]
\* merged_df['% Deviation'].min() and .max()
DevMin(rows) ==
    CHOOSE v \in {rows[i][DEVIATION] : i \in DOMAIN rows} :
        \A j \in DOMAIN rows : v <= rows[j][DEVIATION]
DevMax(rows) ==
    CHOOSE v \in {rows[i][DEVIATION] : i \in DOMAIN rows} :
        \A j \in DOMAIN rows : v >= rows[j][DEVIATION]

\* lines 138-141: merged_df[(dev >= lower_bound) & (dev <= upper_bound)]
between(rows, lo, hi) ==
    SelectSeq(rows, LAMBDA r : r[DEVIATION] >= lo /\ r[DEVIATION] <= hi)

\* positions the user leaves a slider at (a sample of its 0.1 grid)
SliderStops == {0 - 5000, 0 - 2500, 0, 2500, 5000}
\* the positions a slider over the table's range offers
SliderRange(rows) == {v \in SliderStops : DevMin(rows) <= v /\ v <= DevMax(rows)}

\* lines 70-107: the fetch block, skipped once data_fetched is set; an
\* exception of any of the three calls is caught before anything is stored
fetch_block(s, fetched) ==
    IF s.data_fetched \/ fetched = Raise THEN s
    ELSE [s EXCEPT
            !.merged_df = fetched,
            !.lower_bound = IF @ = None THEN Float(DevMin(fetched.table)) ELSE @,
            !.upper_bound = IF @ = None THEN Float(DevMax(fetched.table)) ELSE @,
            !.filtered_df = IF @ = None THEN fetched ELSE @,
            !.data_fetched = TRUE]

\* lines 116-131: st.slider refuses a value outside [min_value, max_value]
sliders_ok(s) ==
    /\ DevMin(s.merged_df.table) <= s.lower_bound.value
    /\ s.lower_bound.value <= DevMax(s.merged_df.table)
    /\ DevMin(s.merged_df.table) <= s.upper_bound.value
    /\ s.upper_bound.value <= DevMax(s.merged_df.table)

\* lines 110-146: what the page ends up showing
display(s) ==
    IF s.merged_df = None THEN [s EXCEPT !.page = "no_data"]
    ELSE IF sliders_ok(s) THEN [s EXCEPT !.page = "data"]
    ELSE [s EXCEPT !.page = "error"]

\* lines 58-146: one run of the script for a logged-in session
script_logged_in(s, stocks, fetched) ==
    IF s.sp500_stocks = None /\ stocks = Raise
    THEN [s EXCEPT !.page = "error"]
    ELSE display(fetch_block(
            IF s.sp500_stocks = None THEN [s EXCEPT !.sp500_stocks = stocks] ELSE s,
            fetched))

\* lines 135-141: the Update button's handler
update_handler(s, new_lower_bound, new_upper_bound) ==
    [s EXCEPT !.lower_bound = Float(new_lower_bound),
              !.upper_bound = Float(new_upper_bound),
              !.filtered_df = DataFrame(between(s.merged_df.table,
                                                new_lower_bound, new_upper_bound))]

InitApp ==
    /\ session_state = NewSession
    /\ store = [b \in PipeBlobs |-> Missing]
    /\ now = 0
    /\ cpc = Idle /\ hist = <<NoEvent, NoEvent>> /\ written = {}
    /\ inp = NoTables /\ out = NoTables /\ dpc = "off"
    /\ world = {} /\ stack = <<>> /\ done = NoCall

rest == <<cacheVars, clientVars, dataVars, pipeVars>>

\* lines 36-41: the Login button; the right code logs in and reruns the script
Login ==
    /\ ~session_state.logged_in
    /\ \E login_code \in {"20255", "0000"}, stocks \in StocksOutcomes,
          fetched \in FetchOutcomes :
        session_state' =
            IF login_code = "20255"
            THEN script_logged_in([session_state EXCEPT !.logged_in = TRUE],
                                  stocks, fetched)
            ELSE [session_state EXCEPT !.page = "login_error"]
    /\ UNCHANGED rest

\* lines 52-55: the Logout button
Logout ==
    /\ session_state.logged_in
    /\ session_state' = [session_state EXCEPT !.logged_in = FALSE,
                                              !.data_fetched = FALSE,
                                              !.page = "login"]
    /\ UNCHANGED rest

\* any other interaction of a logged-in user: the script runs again
Rerun ==
    /\ session_state.logged_in
    /\ \E stocks \in StocksOutcomes, fetched \in FetchOutcomes :
        session_state' = script_logged_in(session_state, stocks, fetched)
    /\ UNCHANGED rest

\* the Update button: the run that sees the click first passes the fetch
\* block and the sliders, then the handler runs, then st.rerun()
Update ==
    /\ session_state.logged_in /\ session_state.page = "data"
    /\ \E stocks \in StocksOutcomes, f1 \in FetchOutcomes, f2 \in FetchOutcomes :
        LET s1 == script_logged_in(session_state, stocks, f1)
        IN  IF s1.page # "data" THEN session_state' = s1
            ELSE \E lo \in SliderRange(s1.merged_df.table),
                    hi \in SliderRange(s1.merged_df.table) :
                    session_state' =
                        script_logged_in(update_handler(s1, lo, hi), stocks, f2)
    /\ UNCHANGED rest

NextApp ==
    \/ Login
    \/ Logout
    \/ Rerun
    \/ Update

SpecApp == InitApp /\ [][NextApp]_vars

----------------------------------------------------------------------------
(* Claims about the dashboard, checked under SpecApp *)

\* C12: whenever the dashboard shows data, filtered_df consists exactly of
\* the rows of the current merged_df whose % Deviation lies within
\* [lower_bound, upper_bound].
C12_FilteredWithinBounds ==
    session_state.page = "data" =>
        session_state.filtered_df =
            DataFrame(between(session_state.merged_df.table,
                              session_state.lower_bound.value,
                              session_state.upper_bound.value))

====
